---------------------------- MODULE Spec2Model ----------------------------
(***************************************************************************)
(* A model of the Justdial + Google-Maps scraping pipeline:                *)
(*   utils.py             text helpers                                     *)
(*   justdial_scraper.py  scrape_justdial, scrape_justdial_by_name         *)
(*   gmb_scraper.py       scrape_gmb and its browser session               *)
(*   main.py              _merge_gmb, _map_record, run_scrape,             *)
(*                        run_scrape_from_csv, main                        *)
(*                                                                         *)
(* A Python str is a sequence of one-character strings.  None is the       *)
(* one-element sequence <<"None">>, which is no str because "None" is not  *)
(* a character.  Long literals that the code only copies or compares       *)
(* whole (block reasons, the URL prefix) are sequences of one symbol.      *)
(* A dict is a function from its keys.  What the network and the browser   *)
(* answer is chosen by the environment with \E at the step that asks.      *)
(***************************************************************************)
EXTENDS Integers, Sequences, FiniteSets

VARIABLES
    \* main / run_scrape / run_scrape_from_csv
    run_pc, mode, use_gmb, cities, keywords, max_pages, city_arg,
    ci, ki, rows, ri, ti, row, ent, seen, all_rows, failed_rows, lookups,
    \* scrape_justdial_by_name
    bn_pc, bn_name, bn_address, bn_ret,
    \* scrape_justdial
    jd_pc, jd_city, jd_keyword, jd_max, jd_page, jd_results, jd_log,
    \* scrape_gmb and the browser sessions
    selenium, gmb_pc, gmb_query, gmb_data, gmb_driver, gmb_page, sessions,
    \* _merge_gmb applied to drawn dicts
    m_pc, m_data, m_gmb, m_out,
    \* a pure function applied to drawn arguments
    f_pc, f_args, f_out

runVars == <<run_pc, mode, use_gmb, cities, keywords, max_pages, city_arg,
             ci, ki, rows, ri, ti, row, ent, seen, all_rows, failed_rows, lookups>>
bnVars  == <<bn_pc, bn_name, bn_address, bn_ret>>
jdVars  == <<jd_pc, jd_city, jd_keyword, jd_max, jd_page, jd_results, jd_log>>
gmbVars == <<selenium, gmb_pc, gmb_query, gmb_data, gmb_driver, gmb_page, sessions>>
mVars   == <<m_pc, m_data, m_gmb, m_out>>
fVars   == <<f_pc, f_args, f_out>>
vars    == <<runVars, bnVars, jdVars, gmbVars, mVars, fVars>>

----------------------------------------------------------------------------
(* Bounds of the model.                                                    *)

\* Most cards the environment puts on one directory page of a run.
MaxCards == 2
\* Most cards on one page, and most pages asked for, when scrape_justdial
\* is called on its own.
MaxJdCards == 1
MaxPages == 3
\* Most rows of the input table in targeted mode.
MaxTable == 2
\* Most candidates handed to the best-match scan on its own.
MaxCand == 3
\* Most pieces of a drawn place URL.
MaxUrlParts == 3

----------------------------------------------------------------------------
(* Python values.                                                          *)

None == <<"None">>

\* Python truthiness of an Optional[str].
Truthy(v) == v # None /\ v # <<>>

\* `a or b` on Optional[str] values.
Or(a, b) == IF Truthy(a) THEN a ELSE b

\* How an f-string prints an Optional[str]: None prints as the word None.
Fmt(v) == IF v = None THEN <<"N", "o", "n", "e">> ELSE v

UpperChars == <<"A", "B", "C", "D", "E", "F", "G", "H", "I", "J", "K", "L", "M",
                "N", "O", "P", "Q", "R", "S", "T", "U", "V", "W", "X", "Y", "Z">>
LowerChars == <<"a", "b", "c", "d", "e", "f", "g", "h", "i", "j", "k", "l", "m",
                "n", "o", "p", "q", "r", "s", "t", "u", "v", "w", "x", "y", "z">>
DigitChars == <<"0", "1", "2", "3", "4", "5", "6", "7", "8", "9">>

Range(s) == {s[i] : i \in 1..Len(s)}

\* str.lower() on one character, then on a str.
LowerChar(c) ==
    IF \E i \in 1..26 : UpperChars[i] = c
    THEN LowerChars[CHOOSE i \in 1..26 : UpperChars[i] = c]
    ELSE c
Lower(s) == [i \in 1..Len(s) |-> LowerChar(s[i])]

\* The character class \s, the class [a-z0-9] and the class \d.
IsSpace(c) == c \in {" ", "\t", "\n"}
IsAlnum(c) == c \in Range(LowerChars) \cup Range(DigitChars)
IsDigit(c) == c \in Range(DigitChars)

\* `needle in hay` for strs.
Contains(hay, needle) ==
    \E i \in 0..Len(hay) :
        /\ i + Len(needle) <= Len(hay)
        /\ \A j \in 1..Len(needle) : hay[i + j] = needle[j]

\* str.strip().
RECURSIVE LStrip(_)
LStrip(s) == IF s # <<>> /\ IsSpace(Head(s)) THEN LStrip(Tail(s)) ELSE s
RECURSIVE RStrip(_)
RStrip(s) ==
    IF s # <<>> /\ IsSpace(s[Len(s)]) THEN RStrip(SubSeq(s, 1, Len(s) - 1)) ELSE s
Strip(s) == RStrip(LStrip(s))

\* re.sub(r"\s+", " ", text): every run of whitespace becomes one space.
RECURSIVE CollapseSpace(_)
CollapseSpace(s) ==
    IF s = <<>> THEN <<>>
    ELSE IF IsSpace(Head(s))
         THEN <<" ">> \o CollapseSpace(LStrip(s))
         ELSE <<Head(s)>> \o CollapseSpace(Tail(s))

\* utils.normalize_text
normalize_text(text) ==
    IF ~Truthy(text) THEN None
    ELSE LET cleaned == Strip(CollapseSpace(text))
         IN  Or(cleaned, None)

\* utils.looks_like_blocked
MarkUnusual == <<"u", "n", "u", "s", "u", "a", "l", " ", "t", "r", "a", "f", "f", "i", "c">>
MarkCaptcha == <<"c", "a", "p", "t", "c", "h", "a">>
MarkVerify  == <<"v", "e", "r", "i", "f", "y">>
looks_like_blocked(text) ==
    IF ~Truthy(text) THEN FALSE
    ELSE LET lowered == Lower(text)
         IN  \/ Contains(lowered, MarkUnusual)
             \/ Contains(lowered, MarkCaptcha)
             \/ Contains(lowered, MarkVerify)

\* utils.build_embed_link_from_place_url
OutputEmbed == <<"o", "u", "t", "p", "u", "t", "=", "e", "m", "b", "e", "d">>
\* The marker appended without looking for it in the URL.
EmbedAlwaysAppends(place_url) ==
    IF ~Truthy(place_url) THEN None
    ELSE LET joiner == IF Contains(place_url, <<"?">>) THEN <<"&">> ELSE <<"?">>
         IN  place_url \o joiner \o OutputEmbed
build_embed_link_from_place_url(place_url) ==
    IF ~Truthy(place_url) THEN None
    ELSE IF Contains(place_url, OutputEmbed) THEN place_url
    ELSE LET joiner == IF Contains(place_url, <<"?">>) THEN <<"&">> ELSE <<"?">>
         IN  place_url \o joiner \o OutputEmbed

\* requests.utils.quote on one character: letters, digits and _.-~/ stay,
\* a space becomes %20, a comma %2C; the model's strs hold nothing else that
\* is quoted.
QuoteChar(c) ==
    IF c = " " THEN <<"%", "2", "0">>
    ELSE IF c = "," THEN <<"%", "2", "C">>
    ELSE <<c>>
RECURSIVE Quote(_)
Quote(s) == IF s = <<>> THEN <<>> ELSE QuoteChar(Head(s)) \o Quote(Tail(s))

\* utils.build_embed_link
build_embed_link(query) ==
    <<"https://www.google.com/maps?q=">> \o Quote(query) \o <<"&">> \o OutputEmbed

----------------------------------------------------------------------------
(* Dicts.                                                                  *)

\* dict.get(key): None for a key the dict does not hold.
Get(d, key) == IF key \in DOMAIN d THEN d[key] ELSE None

\* d[key] = value on a dict that may or may not hold the key.
Put(d, key, value) ==
    [k \in DOMAIN d \cup {key} |-> IF k = key THEN value ELSE d[k]]

\* ", ".join(items)
RECURSIVE Join(_, _)
Join(sep, items) ==
    IF items = <<>> THEN <<>>
    ELSE IF Len(items) = 1 THEN items[1]
    ELSE items[1] \o sep \o Join(sep, Tail(items))

\* The first entry of a list that is there, None when there is none: a walk
\* over selectors whose entry is None when select_one finds no node.
RECURSIVE FirstNode(_)
FirstNode(nodes) ==
    IF nodes = <<>> THEN None
    ELSE IF Head(nodes) # None THEN Head(nodes)
    ELSE FirstNode(Tail(nodes))

----------------------------------------------------------------------------
(* justdial_scraper.py: one listing card.                                  *)
(* A card is what its markup answers: attrs holds the values of data-href  *)
(* and data-url and the href of the first justdial.com link, names, addrs  *)
(* and ratings hold, per selector of the extractor's list, the text of the *)
(* node select_one finds (get_text(" ", strip=True)), None where there is  *)
(* no node.  details is what _parse_details_page returns for the card's    *)
(* profile URL.                                                            *)

\* _extract_profile_url
_extract_profile_url(card) == FirstNode(card.attrs)

\* _extract_name
_extract_name(card) ==
    LET node == FirstNode(card.names)
    IN  IF node # None THEN normalize_text(node) ELSE None

\* _extract_address
_extract_address(card) ==
    LET node == FirstNode(card.addrs)
    IN  IF node # None THEN normalize_text(node) ELSE None

\* _extract_rating_reviews
_extract_rating_reviews(card) ==
    LET node == FirstNode(card.ratings)
    IN  IF node # None THEN normalize_text(node) ELSE None

\* The dict _parse_details_page starts from, returned as it is when the
\* details page cannot be fetched; `details = {}` reads the same through get.
NoDetails ==
    [hours |-> None, images |-> <<>>, landmark |-> None, testimonials |-> None,
     staff |-> None, collection_charges |-> None, collection_radius |-> None,
     average_report_time |-> None]

\* _infer_center_type
WDiagnostic == <<"d", "i", "a", "g", "n", "o", "s", "t", "i", "c">>
WScan == <<"s", "c", "a", "n">>
WLab == <<"l", "a", "b">>
WLaboratory == <<"l", "a", "b", "o", "r", "a", "t", "o", "r", "y">>
WHospital == <<"h", "o", "s", "p", "i", "t", "a", "l">>
TypeOf(value) ==
    IF Contains(value, WDiagnostic) THEN <<"Diagnostic Center">>
    ELSE IF Contains(value, WScan) THEN <<"Scan Center">>
    ELSE IF Contains(value, WLab) \/ Contains(value, WLaboratory) THEN <<"Lab">>
    ELSE IF Contains(value, WHospital) THEN <<"Hospital">>
    ELSE None
_infer_center_type(keyword, name) ==
    LET byKeyword == TypeOf(Lower(Or(keyword, <<>>)))
    IN  IF byKeyword # None THEN byKeyword
        ELSE IF Truthy(name) THEN TypeOf(Lower(name))
        ELSE None

\* The URL of one results page.
PageUrl(city, keyword, page) ==
    <<"https://www.justdial.com/">> \o city \o <<"/">> \o keyword
        \o <<"/", "p", "a", "g", "e", "-">> \o <<DigitChars[page + 1]>>

\* The dict scrape_justdial builds for one card.
CardResult(card, keyword, url) ==
    LET profile_url == _extract_profile_url(card)
        name == _extract_name(card)
        address == _extract_address(card)
        rating == _extract_rating_reviews(card)
        details == IF Truthy(profile_url) THEN card.details ELSE NoDetails
    IN  [center_name |-> name,
         center_type |-> _infer_center_type(keyword, name),
         full_address |-> address,
         average_report_time |-> details.average_report_time,
         collection_charges |-> details.collection_charges,
         collection_radius |-> details.collection_radius,
         working_hours |-> details.hours,
         image_urls |-> Join(<<",", " ">>, details.images),
         google_business_profile_link |-> None,
         google_maps_embed_link |-> None,
         local_landmark |-> details.landmark,
         reviews_ratings |-> rating,
         testimonials |-> details.testimonials,
         photo_gallery |-> Join(<<",", " ">>, details.images),
         staff_doctors |-> details.staff,
         source_url |-> Or(profile_url, url)]

PageResults(cards, keyword, url) ==
    [i \in 1..Len(cards) |-> CardResult(cards[i], keyword, url)]

\* The sentinel a blocked page is answered with.
JdBlockedReason == <<"justdial_blocked_or_captcha">>
Sentinel(reason) == [k \in {"_blocked"} |-> reason]

----------------------------------------------------------------------------
(* justdial_scraper.py: name matching.                                     *)

\* re.split(r"[^a-z0-9]+", text) without the empty pieces.
RECURSIVE SplitTokens(_, _)
SplitTokens(s, cur) ==
    IF s = <<>> THEN (IF cur = <<>> THEN <<>> ELSE <<cur>>)
    ELSE IF IsAlnum(Head(s)) THEN SplitTokens(Tail(s), Append(cur, Head(s)))
    ELSE (IF cur = <<>> THEN <<>> ELSE <<cur>>) \o SplitTokens(Tail(s), <<>>)

\* The split without `.lower()`.
TokenizeKeepsCase(text) ==
    IF ~Truthy(text) THEN <<>> ELSE SplitTokens(text, <<>>)

\* _tokenize_name
_tokenize_name(text) ==
    IF ~Truthy(text) THEN <<>> ELSE SplitTokens(Lower(text), <<>>)

\* _match_score
_match_score(candidate, target, candidate_address, target_address) ==
    LET candidate_tokens == Range(_tokenize_name(candidate))
        target_tokens == Range(_tokenize_name(target))
        name_score == Cardinality(candidate_tokens \cap target_tokens)
        address_tokens == Range(_tokenize_name(candidate_address))
        target_address_tokens == Range(_tokenize_name(target_address))
    IN  IF candidate_tokens = {} \/ target_tokens = {} THEN 0
        ELSE IF Truthy(candidate_address) /\ Truthy(target_address)
             THEN name_score + Cardinality(address_tokens \cap target_address_tokens)
             ELSE name_score

\* `score > best_score` of the best-match scan.
BeatsOrTies(score, best_score) == score >= best_score
Beats(score, best_score) == score > best_score

\* The scan of scrape_justdial_by_name over results[i..]: best is an index
\* into results, 0 while best is None.
RECURSIVE BestScan(_, _, _, _, _, _)
BestScan(results, center_name, address, i, best, best_score) ==
    IF i > Len(results) THEN best
    ELSE LET score == _match_score(Get(results[i], "center_name"), center_name,
                                   Get(results[i], "full_address"), address)
         IN  IF Beats(score, best_score)
             THEN BestScan(results, center_name, address, i + 1, i, score)
             ELSE BestScan(results, center_name, address, i + 1, best, best_score)

\* What scrape_justdial_by_name returns for the list scrape_justdial gave it:
\* <<>> for None, <<d>> for a dict d.
ByNameSelect(results, center_name, address) ==
    IF results = <<>> THEN <<>>
    ELSE IF Truthy(Get(results[1], "_blocked"))
         THEN <<Sentinel(Get(results[1], "_blocked"))>>
    ELSE LET best == BestScan(results, center_name, address, 1, 0, -1)
         IN  IF best # 0 /\ DOMAIN results[best] # {}
             THEN <<results[best]>>
             ELSE <<results[1]>>

----------------------------------------------------------------------------
(* What the directory site answers.                                        *)

SCityLab   == <<"C", "i", "t", "y", " ", "L", "a", "b">>
SMGRoad    == <<"M", "G", " ", "R", "o", "a", "d">>
SRating45  == <<" ", "4", ".", "5", " ">>
SRating39  == <<"3", ".", "9">>
SProfile   == <<"j", "d", "/", "p", "1">>
SHours     == <<"9", "-", "5">>
SImage     == <<"h", "t", "t", "p", ":", "/", "/", "i", "/", "1">>
SApolloLab == <<"A", "p", "o", "l", "l", "o", ",", " ", "L", "A", "B">>
SLinkRoad  == <<"L", "i", "n", "k", " ", "R", "o", "a", "d">>
SMumbai    == <<"M", "u", "m", "b", "a", "i">>
SPune      == <<"P", "u", "n", "e">>
SKwDiag    == <<"d", "i", "a", "g", "n", "o", "s", "t", "i", "c", " ", "c", "e", "n", "t", "e", "r">>
SKwLab     == <<"l", "a", "b">>

SomeDetails ==
    [NoDetails EXCEPT !.hours = SHours, !.images = <<SImage, SImage>>]

\* City Lab at MG Road, found by the first selector of each list.
CardA ==
    [attrs |-> <<None, None, None>>,
     names |-> <<SCityLab, None, None, None>>,
     addrs |-> <<SMGRoad, None, None, None>>,
     ratings |-> <<SRating45, None, None>>,
     details |-> NoDetails]
\* The same name and address found by the last selectors, another rating,
\* a profile URL and a details page.
CardA2 ==
    [attrs |-> <<None, SProfile, None>>,
     names |-> <<None, None, None, SCityLab>>,
     addrs |-> <<None, None, None, SMGRoad>>,
     ratings |-> <<None, None, SRating39>>,
     details |-> SomeDetails]
\* A card with no name node and no address node.
CardC ==
    [attrs |-> <<None, None, None>>,
     names |-> <<None, None, None, None>>,
     addrs |-> <<None, None, None, None>>,
     ratings |-> <<None, None, None>>,
     details |-> NoDetails]
\* Another name that shares one token with City Lab, another address.
CardB ==
    [attrs |-> <<None, None, None>>,
     names |-> <<None, SApolloLab, None, None>>,
     addrs |-> <<None, None, SLinkRoad, None>>,
     ratings |-> <<None, None, None>>,
     details |-> NoDetails]

\* The lists of at most n cards of a set.
RECURSIVE CardLists(_, _)
CardLists(cards, n) ==
    IF n = 0 THEN {<<>>}
    ELSE LET shorter == CardLists(cards, n - 1)
         IN  shorter \cup {Append(l, c) : l \in {s \in shorter : Len(s) = n - 1}, c \in cards}

\* The lists of cards a page may hold: the pages of a run, those of a call
\* of scrape_justdial on its own, those of a call of scrape_justdial_by_name
\* on its own.
PageCards ==
    IF mode = "jd" THEN CardLists({CardA, CardC}, MaxJdCards)
    ELSE IF mode = "byname" THEN CardLists({CardA, CardA2, CardB, CardC}, MaxCand)
    ELSE CardLists({CardA, CardA2, CardC}, MaxCards)

\* A parsed page: per selector of _extract_listing_cards, what select finds.
Soups ==
    {<<cards, <<>>, <<>>, <<>>>> : cards \in PageCards}
        \cup {<<<<>>, <<>>, <<>>, cards>> : cards \in {l \in PageCards : Len(l) = 1}}

TextPlain   == <<"L", "a", "b", "s", " ", "n", "e", "a", "r", " ", "y", "o", "u">>
TextCaptcha == <<"S", "o", "l", "v", "e", " ", "t", "h", "e", " ", "C", "A", "P", "T", "C", "H", "A">>

\* What fetch_html returns: ok is FALSE for None (a status other than 200, a
\* transport error), else text is the body and soup what it parses to.
NoDoc == [ok |-> FALSE, text |-> <<>>, soup |-> <<<<>>, <<>>, <<>>, <<>>>>]
EmptyBody == [ok |-> TRUE, text |-> <<>>, soup |-> <<<<>>, <<>>, <<>>, <<>>>>]
BlockedDoc == [ok |-> TRUE, text |-> TextCaptcha, soup |-> <<<<CardA>>, <<>>, <<>>, <<>>>>]
FetchOutcomes ==
    {NoDoc, EmptyBody, BlockedDoc}
        \cup {[ok |-> TRUE, text |-> TextPlain, soup |-> s] : s \in Soups}

\* `not html`
NoHtml(html) == ~html.ok \/ html.text = <<>>

\* _extract_listing_cards
_extract_listing_cards(soup) ==
    IF \E i \in 1..Len(soup) : soup[i] # <<>>
    THEN soup[CHOOSE i \in 1..Len(soup) : soup[i] # <<>> /\ \A j \in 1..(i - 1) : soup[j] = <<>>]
    ELSE <<>>

----------------------------------------------------------------------------
(* justdial_scraper.scrape_justdial, one action per pass of its loop.      *)
(* jd_log keeps, per fetch of a results page, the page number and what     *)
(* fetch_html returned.                                                    *)

\* The call: the state of scrape_justdial as its loop starts.
JdStart(city, keyword, pages) ==
    /\ jd_pc' = "loop"
    /\ jd_city' = city
    /\ jd_keyword' = keyword
    /\ jd_max' = pages
    /\ jd_page' = 1
    /\ jd_results' = <<>>
    /\ jd_log' = <<>>

\* `if not html: continue`
JdNoHtml ==
    /\ jd_pc = "loop" /\ jd_page <= jd_max
    /\ \E html \in FetchOutcomes :
        /\ NoHtml(html)
        /\ jd_page' = jd_page + 1
        /\ jd_log' = Append(jd_log, [page |-> jd_page, html |-> html])
    /\ UNCHANGED <<jd_pc, jd_city, jd_keyword, jd_max, jd_results>>
    /\ UNCHANGED <<runVars, bnVars, gmbVars, mVars, fVars>>

\* The sentinel appended to what was collected, instead of returned alone.
JdBlockedKeepsResults ==
    /\ jd_pc = "loop" /\ jd_page <= jd_max
    /\ \E html \in FetchOutcomes :
        /\ ~NoHtml(html)
        /\ looks_like_blocked(html.text)
        /\ jd_results' = Append(jd_results, Sentinel(JdBlockedReason))
        /\ jd_pc' = "done"
        /\ jd_log' = Append(jd_log, [page |-> jd_page, html |-> html])
    /\ UNCHANGED <<jd_city, jd_keyword, jd_max, jd_page>>
    /\ UNCHANGED <<runVars, bnVars, gmbVars, mVars, fVars>>

\* `if looks_like_blocked(html): return [{"_blocked": ...}]`
JdBlocked ==
    /\ jd_pc = "loop" /\ jd_page <= jd_max
    /\ \E html \in FetchOutcomes :
        /\ ~NoHtml(html)
        /\ looks_like_blocked(html.text)
        /\ jd_results' = <<Sentinel(JdBlockedReason)>>
        /\ jd_pc' = "done"
        /\ jd_log' = Append(jd_log, [page |-> jd_page, html |-> html])
    /\ UNCHANGED <<jd_city, jd_keyword, jd_max, jd_page>>
    /\ UNCHANGED <<runVars, bnVars, gmbVars, mVars, fVars>>

\* `if not cards: continue`: a page without cards is skipped.
JdNoCardsContinues ==
    /\ jd_pc = "loop" /\ jd_page <= jd_max
    /\ \E html \in FetchOutcomes :
        /\ ~NoHtml(html)
        /\ ~looks_like_blocked(html.text)
        /\ _extract_listing_cards(html.soup) = <<>>
        /\ jd_page' = jd_page + 1
        /\ jd_log' = Append(jd_log, [page |-> jd_page, html |-> html])
    /\ UNCHANGED <<jd_pc, jd_city, jd_keyword, jd_max, jd_results>>
    /\ UNCHANGED <<runVars, bnVars, gmbVars, mVars, fVars>>

\* `if not cards: break`, and the return after the loop.
JdNoCards ==
    /\ jd_pc = "loop" /\ jd_page <= jd_max
    /\ \E html \in FetchOutcomes :
        /\ ~NoHtml(html)
        /\ ~looks_like_blocked(html.text)
        /\ _extract_listing_cards(html.soup) = <<>>
        /\ jd_pc' = "done"
        /\ jd_log' = Append(jd_log, [page |-> jd_page, html |-> html])
    /\ UNCHANGED <<jd_city, jd_keyword, jd_max, jd_page, jd_results>>
    /\ UNCHANGED <<runVars, bnVars, gmbVars, mVars, fVars>>

\* `for card in cards: ... results.append(result)`
JdCards ==
    /\ jd_pc = "loop" /\ jd_page <= jd_max
    /\ \E html \in FetchOutcomes :
        /\ ~NoHtml(html)
        /\ ~looks_like_blocked(html.text)
        /\ _extract_listing_cards(html.soup) # <<>>
        /\ jd_results' =
               jd_results \o PageResults(_extract_listing_cards(html.soup), jd_keyword,
                                          PageUrl(jd_city, jd_keyword, jd_page))
        /\ jd_log' = Append(jd_log, [page |-> jd_page, html |-> html])
        /\ jd_page' = jd_page + 1
    /\ UNCHANGED <<jd_pc, jd_city, jd_keyword, jd_max>>
    /\ UNCHANGED <<runVars, bnVars, gmbVars, mVars, fVars>>

\* The range is used up: `return results`.
JdReturn ==
    /\ jd_pc = "loop" /\ jd_page > jd_max
    /\ jd_pc' = "done"
    /\ UNCHANGED <<jd_city, jd_keyword, jd_max, jd_page, jd_results, jd_log>>
    /\ UNCHANGED <<runVars, bnVars, gmbVars, mVars, fVars>>

JdStep == JdNoHtml \/ JdBlocked \/ JdNoCards \/ JdCards \/ JdReturn

JdIdle ==
    /\ jd_pc = "idle" /\ jd_city = <<>> /\ jd_keyword = <<>> /\ jd_max = 0
    /\ jd_page = 0 /\ jd_results = <<>> /\ jd_log = <<>>

----------------------------------------------------------------------------
(* What the map site answers.                                              *)

SGoogleUser == <<"g", "o", "o", "g", "l", "e", "u", "s", "e", "r", "c", "o", "n", "t", "e", "n", "t">>
SPlaceX     == <<"m", "/", "X", "?", "h", "l", "=", "e", "n">>
SPlaceSorry == <<"m", "/", "s", "o", "r", "r", "y">>
SMGRoadMum  == <<" ", "M", "G", " ", "R", "o", "a", "d", ",", " ", " ", "M", "u", "m", "b", "a", "i">>
SIcon       == <<"g", "s", "t", "a", "t", "i", "c", "/", "i", "c", "o", "n">>
TextUnusual == <<"U", "n", "u", "s", "u", "a", "l", " ", "t", "r", "a", "f", "f", "i", "c", " ", "f", "r", "o", "m", " ", "y", "o", "u", "r", " ", "c", "o", "m", "p", "u", "t", "e", "r", " ", "n", "e", "t", "w", "o", "r", "k">>

\* A rendered profile page: current_url, page_source, and per selector the
\* text of the first element found (None when find_elements finds none), the
\* src of every image, the text of every review node.
ProfFull ==
    [url |-> SPlaceX, source |-> SCityLab, rating |-> None,
     address |-> SMGRoadMum, hours |-> None,
     images |-> <<>>, reviews |-> <<>>]
ProfBare ==
    [url |-> SPlaceX, source |-> SCityLab, rating |-> None,
     address |-> None, hours |-> None,
     images |-> <<SIcon>>, reviews |-> <<<<>>>>]
ProfBlocked ==
    [url |-> SPlaceSorry, source |-> TextUnusual, rating |-> None,
     address |-> None, hours |-> None,
     images |-> <<>>, reviews |-> <<>>]
NoPage ==
    [url |-> <<>>, source |-> <<>>, rating |-> None,
     address |-> None, hours |-> None,
     images |-> <<>>, reviews |-> <<>>]
ProfilePages == {ProfFull, ProfBare, ProfBlocked}

GmbBlockedReason == <<"gmb_blocked_or_captcha">>

\* The dict scrape_gmb starts from.
EmptyProfile ==
    [google_business_profile_link |-> None,
     google_maps_embed_link |-> None,
     reviews_ratings |-> None,
     working_hours |-> None,
     full_address |-> None,
     image_urls |-> None,
     photo_gallery |-> None,
     testimonials |-> None,
     _blocked |-> None]

\* [img for img in images if img and "googleusercontent" in img]
RECURSIVE HostedImages(_)
HostedImages(images) ==
    IF images = <<>> THEN <<>>
    ELSE IF Truthy(Head(images)) /\ Contains(Head(images), SGoogleUser)
         THEN <<Head(images)>> \o HostedImages(Tail(images))
         ELSE HostedImages(Tail(images))

\* The loop that collects at most three non-empty review texts.
RECURSIVE ReviewTexts(_, _)
ReviewTexts(nodes, review_texts) ==
    IF nodes = <<>> THEN review_texts
    ELSE LET text == normalize_text(Head(nodes))
             next == IF Truthy(text) THEN Append(review_texts, text) ELSE review_texts
         IN  IF Len(next) >= 3 THEN next ELSE ReviewTexts(Tail(nodes), next)

\* The number of extraction blocks of scrape_gmb (link, rating, address,
\* hours, images, reviews).
ExtractBlocks == 6

\* data after the first n extraction blocks ran on the page.
ExtractUpTo(data, page, query, n) ==
    LET d1 == IF n >= 1
              THEN [data EXCEPT
                      !.google_business_profile_link = page.url,
                      !.google_maps_embed_link =
                          Or(build_embed_link_from_place_url(page.url),
                             build_embed_link(query))]
              ELSE data
        d2 == IF n >= 2 /\ page.rating # None
              THEN [d1 EXCEPT !.reviews_ratings = normalize_text(page.rating)]
              ELSE d1
        d3 == IF n >= 3 /\ page.address # None
              THEN [d2 EXCEPT !.full_address = normalize_text(page.address)]
              ELSE d2
        d4 == IF n >= 4 /\ page.hours # None
              THEN [d3 EXCEPT !.working_hours = normalize_text(page.hours)]
              ELSE d3
        images == HostedImages(page.images)
        shown == SubSeq(images, 1, IF Len(images) < 10 THEN Len(images) ELSE 10)
        d5 == IF n >= 5 /\ images # <<>>
              THEN [d4 EXCEPT !.image_urls = Join(<<",", " ">>, shown),
                              !.photo_gallery = Join(<<",", " ">>, shown)]
              ELSE d4
        review_texts == ReviewTexts(page.reviews, <<>>)
        d6 == IF n >= 6 /\ review_texts # <<>>
              THEN [d5 EXCEPT !.testimonials = Join(<<" ", "|", " ">>, review_texts)]
              ELSE d5
    IN  d6

----------------------------------------------------------------------------
(* gmb_scraper.scrape_gmb.                                                 *)
(* selenium says whether `from selenium import webdriver` succeeded.       *)
(* sessions holds, per browser session ever created, how often quit() was  *)
(* called on it; gmb_driver is the index of the call's session, 0 for none.*)

\* The call: the state of scrape_gmb before `driver = _init_driver(...)`.
GmbStart(query) ==
    /\ gmb_pc' = "init"
    /\ gmb_query' = query
    /\ gmb_data' = EmptyProfile
    /\ gmb_driver' = 0
    /\ gmb_page' = NoPage
    /\ UNCHANGED <<selenium, sessions>>

\* _init_driver returns None: `if driver is None: ... return data`.
GmbNoSelenium ==
    /\ gmb_pc = "init" /\ ~selenium
    /\ gmb_pc' = "done"
    /\ UNCHANGED <<selenium, gmb_query, gmb_data, gmb_driver, gmb_page, sessions>>
    /\ UNCHANGED <<runVars, bnVars, jdVars, mVars, fVars>>

\* webdriver.Chrome(options=options) raises (no browser, no driver binary):
\* the call is outside the try, so the exception leaves scrape_gmb.
GmbInitRaises ==
    /\ gmb_pc = "init" /\ selenium
    /\ gmb_pc' = "raised"
    /\ UNCHANGED <<selenium, gmb_query, gmb_data, gmb_driver, gmb_page, sessions>>
    /\ UNCHANGED <<runVars, bnVars, jdVars, mVars, fVars>>

\* webdriver.Chrome(options=options) returns a session.
GmbInitOk ==
    /\ gmb_pc = "init" /\ selenium
    /\ sessions' = Append(sessions, 0)
    /\ gmb_driver' = Len(sessions) + 1
    /\ gmb_pc' = "try"
    /\ UNCHANGED <<selenium, gmb_query, gmb_data, gmb_page>>
    /\ UNCHANGED <<runVars, bnVars, jdVars, mVars, fVars>>

\* driver.get, the wait for the search box, the query, the wait for the
\* heading: the page is there.
GmbNavigate ==
    /\ gmb_pc = "try"
    /\ \E page \in ProfilePages : gmb_page' = page
    /\ gmb_pc' = "loaded"
    /\ UNCHANGED <<selenium, gmb_query, gmb_data, gmb_driver, sessions>>
    /\ UNCHANGED <<runVars, bnVars, jdVars, mVars, fVars>>

\* One of them raises (a timeout, a lost browser): except, then finally.
GmbNavigateRaises ==
    /\ gmb_pc = "try"
    /\ gmb_pc' = "finally"
    /\ UNCHANGED <<selenium, gmb_query, gmb_data, gmb_driver, gmb_page, sessions>>
    /\ UNCHANGED <<runVars, bnVars, jdVars, mVars, fVars>>

\* The early return on a block page placed before the try: no finally runs.
GmbBlockedNoFinally ==
    /\ gmb_pc = "loaded"
    /\ looks_like_blocked(gmb_page.source)
    /\ gmb_data' = [gmb_data EXCEPT !._blocked = GmbBlockedReason]
    /\ gmb_pc' = "done"
    /\ UNCHANGED <<selenium, gmb_query, gmb_driver, gmb_page, sessions>>
    /\ UNCHANGED <<runVars, bnVars, jdVars, mVars, fVars>>

\* `if looks_like_blocked(driver.page_source): ... return data`
GmbBlocked ==
    /\ gmb_pc = "loaded"
    /\ looks_like_blocked(gmb_page.source)
    /\ gmb_data' = [gmb_data EXCEPT !._blocked = GmbBlockedReason]
    /\ gmb_pc' = "finally"
    /\ UNCHANGED <<selenium, gmb_query, gmb_driver, gmb_page, sessions>>
    /\ UNCHANGED <<runVars, bnVars, jdVars, mVars, fVars>>

\* The extraction blocks; an exception after n of them leaves what they set.
GmbExtract ==
    /\ gmb_pc = "loaded"
    /\ ~looks_like_blocked(gmb_page.source)
    /\ \E n \in 0..ExtractBlocks :
        gmb_data' = ExtractUpTo(gmb_data, gmb_page, gmb_query, n)
    /\ gmb_pc' = "finally"
    /\ UNCHANGED <<selenium, gmb_query, gmb_driver, gmb_page, sessions>>
    /\ UNCHANGED <<runVars, bnVars, jdVars, mVars, fVars>>

\* `finally: driver.quit()`, then `return data`.
GmbQuit ==
    /\ gmb_pc = "finally"
    /\ sessions' = [sessions EXCEPT ![gmb_driver] = @ + 1]
    /\ gmb_pc' = "done"
    /\ UNCHANGED <<selenium, gmb_query, gmb_data, gmb_driver, gmb_page>>
    /\ UNCHANGED <<runVars, bnVars, jdVars, mVars, fVars>>

GmbStep ==
    \/ GmbNoSelenium \/ GmbInitRaises \/ GmbInitOk \/ GmbNavigate
    \/ GmbNavigateRaises \/ GmbBlocked \/ GmbExtract \/ GmbQuit

GmbIdle ==
    /\ gmb_pc = "idle" /\ gmb_query = <<>> /\ gmb_data = EmptyProfile
    /\ gmb_driver = 0 /\ gmb_page = NoPage /\ sessions = <<>>

----------------------------------------------------------------------------
(* main.py: records.                                                       *)

\* COLUMNS with the key _map_record reads for each.
COLUMNS ==
    <<<<"Center Name", "center_name">>,
      <<"Center Type", "center_type">>,
      <<"Address", "full_address">>,
      <<"Average Report Time", "average_report_time">>,
      <<"Collection Charges", "collection_charges">>,
      <<"Collection Radius (Kms)", "collection_radius">>,
      <<"Opening & Closing Slots", "working_hours">>,
      <<"Image URL(s)", "image_urls">>,
      <<"Google Business Profile Link", "google_business_profile_link">>,
      <<"Google Maps Embed", "google_maps_embed_link">>,
      <<"Local Landmark / Directions", "local_landmark">>,
      <<"Reviews / Ratings", "reviews_ratings">>,
      <<"Testimonials", "testimonials">>,
      <<"Photo Gallery", "photo_gallery">>,
      <<"Staff / Doctors List", "staff_doctors">>>>

KeyOf(column) == (CHOOSE i \in 1..Len(COLUMNS) : COLUMNS[i][1] = column)

\* _map_record
_map_record(record) ==
    [column \in {COLUMNS[i][1] : i \in 1..Len(COLUMNS)} |->
        Get(record, COLUMNS[KeyOf(column)][2])]

\* key.startswith("_") for the keys the records have.
StartsWithUnderscore(key) == key \in {"_blocked"}

\* `if value is not None:` in place of `if value:`.
MergeTakesNotNone(value) == value # None

\* `if value:` of _merge_gmb.
MergeTakes(value) == Truthy(value)

\* _merge_gmb
_merge_gmb(data, gmb) ==
    LET taken == {key \in DOMAIN gmb : ~StartsWithUnderscore(key) /\ MergeTakes(gmb[key])}
    IN  [key \in DOMAIN data \cup taken |-> IF key \in taken THEN gmb[key] ELSE data[key]]

\* A cell pandas read as missing (a float NaN); a str otherwise.
NaN == <<"NaN">>
SNan == <<"n", "a", "n">>

\* str(value)
StrOf(value) == IF value = NaN THEN SNan ELSE value
\* str(value or ""): a NaN is truthy.
StrOfOr(value) == IF value = NaN THEN SNan ELSE IF value = None THEN <<>> ELSE value

Placeholders == {<<"y", "e", "s">>, <<"n", "o">>, <<"y", "e", "s", " ", "i", "n", " ", "g", "m", "b">>}

\* _normalize_address_cell
_normalize_address_cell(value) ==
    LET cleaned == Strip(StrOfOr(value))
    IN  IF cleaned = <<>> THEN <<>>
        ELSE IF Lower(cleaned) \in Placeholders THEN <<>>
        ELSE IF Len(cleaned) < 5 THEN <<>>
        ELSE cleaned

\* _normalize_city_cell
_normalize_city_cell(value) ==
    LET cleaned == Strip(StrOfOr(value))
    IN  IF cleaned = <<>> THEN <<>>
        ELSE IF Lower(cleaned) \in Placeholders THEN <<>>
        ELSE cleaned

\* _normalize_pincode_cell
_normalize_pincode_cell(value) ==
    LET cleaned == Strip(StrOfOr(value))
    IN  IF cleaned = <<>> THEN <<>>
        ELSE IF Lower(cleaned) \in Placeholders THEN <<>>
        ELSE IF ~(Len(cleaned) \in 5..6 /\ \A i \in 1..Len(cleaned) : IsDigit(cleaned[i]))
             THEN <<>>
        ELSE cleaned

\* " ".join(part for part in parts if part).strip()
JoinParts(parts) ==
    Join(<<" ">>, SelectSeq(parts, LAMBDA part : part # <<>>))

\* f"{name} {address or ''}".strip()
Query(name, address) == Strip(Fmt(name) \o <<" ">> \o Or(address, <<>>))

\* The dict run_scrape_from_csv falls back on when the directory has no match.
DefaultRow(name) ==
    [center_name |-> name, center_type |-> None, full_address |-> None,
     average_report_time |-> None, collection_charges |-> None,
     collection_radius |-> None, working_hours |-> None, image_urls |-> None,
     google_business_profile_link |-> None, google_maps_embed_link |-> None,
     local_landmark |-> None, reviews_ratings |-> None, testimonials |-> None,
     photo_gallery |-> None, staff_doctors |-> None, source_url |-> None]

\* One entry of failed_rows.
FailedRow(name, address, reason) ==
    [column \in {"Center Name", "Address", "Reason"} |->
        IF column = "Center Name" THEN name
        ELSE IF column = "Address" THEN address
        ELSE reason]

----------------------------------------------------------------------------
(* The layers at rest.  A caller that has read a callee's result puts the  *)
(* callee back to rest, sessions excepted: they are the run's history.     *)

JdRest ==
    /\ jd_pc' = "idle" /\ jd_city' = <<>> /\ jd_keyword' = <<>> /\ jd_max' = 0
    /\ jd_page' = 0 /\ jd_results' = <<>> /\ jd_log' = <<>>

GmbRest ==
    /\ gmb_pc' = "idle" /\ gmb_query' = <<>> /\ gmb_data' = EmptyProfile
    /\ gmb_driver' = 0 /\ gmb_page' = NoPage
    /\ UNCHANGED <<selenium, sessions>>

BnIdle == bn_pc = "idle" /\ bn_name = <<>> /\ bn_address = <<>> /\ bn_ret = <<>>

BnRest == bn_pc' = "idle" /\ bn_name' = <<>> /\ bn_address' = <<>> /\ bn_ret' = <<>>

MIdle == m_pc = "idle" /\ m_data = <<>> /\ m_gmb = <<>> /\ m_out = <<>>

FIdle == f_pc = "idle" /\ f_args = <<>> /\ f_out = <<>>

NoEnt == [name |-> <<>>, address |-> <<>>, hint |-> <<>>, row_city |-> <<>>]

\* One entry of lookups, the record of what the run asked for and put out:
\* kind "jd" a directory query, "gmb" a profile lookup, "out" an output row,
\* "fail" a failure entry; key names the query or the entity, rec is the
\* directory record and gmb the profile record the entry is about (the empty
\* dict where there is none).
Entry(kind, key, rec, gmb) == [kind |-> kind, key |-> key, rec |-> rec, gmb |-> gmb]

----------------------------------------------------------------------------
(* justdial_scraper.scrape_justdial_by_name                                *)

\* The call, up to `results = scrape_justdial(..., max_pages=1)`.
BnStart(city, center_name, address) ==
    /\ bn_pc' = "wait"
    /\ bn_name' = center_name
    /\ bn_address' = address
    /\ bn_ret' = <<>>
    /\ JdStart(city, center_name, 1)

\* From the return of scrape_justdial to the return of the function.
BnReturn ==
    /\ bn_pc = "wait" /\ jd_pc = "done"
    /\ bn_ret' = ByNameSelect(jd_results, bn_name, bn_address)
    /\ bn_pc' = "done"
    /\ UNCHANGED <<bn_name, bn_address>>
    /\ UNCHANGED <<runVars, jdVars, gmbVars, mVars, fVars>>

----------------------------------------------------------------------------
(* main.run_scrape (bulk mode)                                             *)

DedupeKey(r) == <<Get(r, "center_name"), Get(r, "full_address")>>

\* `rows = scrape_justdial(city=city, keyword=keyword, max_pages=max_pages)`
BulkQuery ==
    /\ run_pc = "bulk" /\ ci <= Len(cities)
    /\ JdStart(cities[ci], keywords[ki], max_pages)
    /\ run_pc' = "bulk_jd"
    /\ lookups' = Append(lookups, Entry("jd", <<cities[ci], keywords[ki]>>, <<>>, <<>>))
    /\ UNCHANGED <<mode, use_gmb, cities, keywords, max_pages, city_arg,
                   ci, ki, rows, ri, ti, row, ent, seen, all_rows, failed_rows>>
    /\ UNCHANGED <<bnVars, gmbVars, mVars, fVars>>

\* scrape_justdial has returned: `for row in rows:` starts.
BulkRows ==
    /\ run_pc = "bulk_jd" /\ jd_pc = "done"
    /\ rows' = jd_results
    /\ ri' = 1
    /\ run_pc' = "bulk_row"
    /\ JdRest
    /\ UNCHANGED <<mode, use_gmb, cities, keywords, max_pages, city_arg,
                   ci, ki, ti, row, ent, seen, all_rows, failed_rows, lookups>>
    /\ UNCHANGED <<bnVars, gmbVars, mVars, fVars>>

\* `if dedupe_key in seen: continue`
BulkDuplicate ==
    /\ run_pc = "bulk_row" /\ ri <= Len(rows)
    /\ DedupeKey(rows[ri]) \in seen
    /\ ri' = ri + 1
    /\ UNCHANGED <<run_pc, mode, use_gmb, cities, keywords, max_pages, city_arg,
                   ci, ki, rows, ti, row, ent, seen, all_rows, failed_rows, lookups>>
    /\ UNCHANGED <<bnVars, jdVars, gmbVars, mVars, fVars>>

\* BulkPlain without `seen.add(dedupe_key)`.
BulkPlainForgets ==
    /\ run_pc = "bulk_row" /\ ri <= Len(rows)
    /\ DedupeKey(rows[ri]) \notin seen
    /\ ~(use_gmb /\ Truthy(Get(rows[ri], "center_name")))
    /\ all_rows' = Append(all_rows, _map_record(rows[ri]))
    /\ lookups' = Append(lookups, Entry("out", DedupeKey(rows[ri]), rows[ri], <<>>))
    /\ ri' = ri + 1
    /\ UNCHANGED <<run_pc, mode, use_gmb, cities, keywords, max_pages, city_arg,
                   ci, ki, rows, ti, row, ent, seen, failed_rows>>
    /\ UNCHANGED <<bnVars, jdVars, gmbVars, mVars, fVars>>

\* A new key without enrichment: `all_rows.append(_map_record(row))`.
BulkPlain ==
    /\ run_pc = "bulk_row" /\ ri <= Len(rows)
    /\ DedupeKey(rows[ri]) \notin seen
    /\ ~(use_gmb /\ Truthy(Get(rows[ri], "center_name")))
    /\ seen' = seen \cup {DedupeKey(rows[ri])}
    /\ all_rows' = Append(all_rows, _map_record(rows[ri]))
    /\ lookups' = Append(lookups, Entry("out", DedupeKey(rows[ri]), rows[ri], <<>>))
    /\ ri' = ri + 1
    /\ UNCHANGED <<run_pc, mode, use_gmb, cities, keywords, max_pages, city_arg,
                   ci, ki, rows, ti, row, ent, failed_rows>>
    /\ UNCHANGED <<bnVars, jdVars, gmbVars, mVars, fVars>>

\* A new key with enrichment: `gmb_data = scrape_gmb(query=query, ...)`.
BulkLookup ==
    /\ run_pc = "bulk_row" /\ ri <= Len(rows)
    /\ DedupeKey(rows[ri]) \notin seen
    /\ use_gmb /\ Truthy(Get(rows[ri], "center_name"))
    /\ seen' = seen \cup {DedupeKey(rows[ri])}
    /\ GmbStart(Query(Get(rows[ri], "center_name"), Get(rows[ri], "full_address")))
    /\ lookups' = Append(lookups, Entry("gmb", DedupeKey(rows[ri]), rows[ri], <<>>))
    /\ run_pc' = "bulk_gmb"
    /\ UNCHANGED <<mode, use_gmb, cities, keywords, max_pages, city_arg,
                   ci, ki, rows, ri, ti, row, ent, all_rows, failed_rows>>
    /\ UNCHANGED <<bnVars, jdVars, mVars, fVars>>

\* scrape_gmb has returned: merge and append.
BulkMerge ==
    /\ run_pc = "bulk_gmb" /\ gmb_pc = "done"
    /\ all_rows' = Append(all_rows, _map_record(_merge_gmb(rows[ri], gmb_data)))
    /\ lookups' = Append(lookups, Entry("out", DedupeKey(rows[ri]), rows[ri], gmb_data))
    /\ ri' = ri + 1
    /\ run_pc' = "bulk_row"
    /\ GmbRest
    /\ UNCHANGED <<mode, use_gmb, cities, keywords, max_pages, city_arg,
                   ci, ki, rows, ti, row, ent, seen, failed_rows>>
    /\ UNCHANGED <<bnVars, jdVars, mVars, fVars>>

\* The rows of one query are used up: the next keyword, or the next city.
BulkNext ==
    /\ run_pc = "bulk_row" /\ ri > Len(rows)
    /\ IF ki < Len(keywords)
       THEN ki' = ki + 1 /\ ci' = ci
       ELSE ki' = 1 /\ ci' = ci + 1
    /\ rows' = <<>> /\ ri' = 0
    /\ run_pc' = "bulk"
    /\ UNCHANGED <<mode, use_gmb, cities, keywords, max_pages, city_arg,
                   ti, row, ent, seen, all_rows, failed_rows, lookups>>
    /\ UNCHANGED <<bnVars, jdVars, gmbVars, mVars, fVars>>

\* `return all_rows`, and main writes the CSV.
BulkReturn ==
    /\ run_pc = "bulk" /\ ci > Len(cities)
    /\ run_pc' = "done"
    /\ UNCHANGED <<mode, use_gmb, cities, keywords, max_pages, city_arg,
                   ci, ki, rows, ri, ti, row, ent, seen, all_rows, failed_rows, lookups>>
    /\ UNCHANGED <<bnVars, jdVars, gmbVars, mVars, fVars>>

\* An exception leaves scrape_gmb: nothing in run_scrape, run_scrape_from_csv
\* or main catches it, the process ends with a traceback and no file written.
RunCrash ==
    /\ run_pc \in {"bulk_gmb", "csv_gmb"} /\ gmb_pc = "raised"
    /\ run_pc' = "crashed"
    /\ UNCHANGED <<mode, use_gmb, cities, keywords, max_pages, city_arg,
                   ci, ki, rows, ri, ti, row, ent, seen, all_rows, failed_rows, lookups>>
    /\ UNCHANGED <<bnVars, jdVars, gmbVars, mVars, fVars>>

----------------------------------------------------------------------------
(* main.run_scrape_from_csv (targeted mode)                                *)
(* An input row holds the cells of the name, address, locality and pincode *)
(* columns; df.iterrows() hands out the next one, drawn as it is read, and *)
(* ti counts the rows read.                                                *)

\* The rows an input table is made of.
InputRows ==
    {[name |-> SCityLab, address |-> SMGRoad, locality |-> SMumbai, pincode |-> <<"4", "0", "0", "0", "0", "1">>],
     [name |-> <<" ", "C", "i", "t", "y", " ", "L", "a", "b", " ">>, address |-> <<"Y", "e", "s">>, locality |-> NaN, pincode |-> <<"1", "1", "0", " ", "0", "0", "1">>],
     [name |-> NaN, address |-> NaN, locality |-> <<"N", "o">>, pincode |-> NaN],
     [name |-> <<" ", " ">>, address |-> SMGRoad, locality |-> SPune, pincode |-> NaN]}

\* `name = str(row.get(name_column, "")).strip()`
CsvName(r) == Strip(StrOf(r.name))

CsvAddress(r) == _normalize_address_cell(r.address)
CsvCity(r) == _normalize_city_cell(r.locality)
CsvPincode(r) == _normalize_pincode_cell(r.pincode)
CsvHint(r) == Strip(JoinParts(<<CsvAddress(r), CsvPincode(r), CsvCity(r)>>))

\* `if not name: continue` and `if name in seen: continue`
CsvSkip ==
    /\ run_pc = "csv" /\ ti <= MaxTable
    /\ \E r \in InputRows : CsvName(r) = <<>> \/ CsvName(r) \in seen
    /\ ti' = ti + 1
    /\ UNCHANGED <<run_pc, mode, use_gmb, cities, keywords, max_pages, city_arg,
                   ci, ki, rows, ri, row, ent, seen, all_rows, failed_rows, lookups>>
    /\ UNCHANGED <<bnVars, jdVars, gmbVars, mVars, fVars>>

\* A new name: `row = scrape_justdial_by_name(...)`.
CsvLookup ==
    /\ run_pc = "csv" /\ ti <= MaxTable
    /\ \E r \in InputRows :
        LET name == CsvName(r)
        IN  /\ name # <<>> /\ name \notin seen
            /\ seen' = seen \cup {name}
            /\ ent' = [name |-> name, address |-> CsvAddress(r),
                       hint |-> CsvHint(r), row_city |-> CsvCity(r)]
            /\ BnStart(Or(CsvCity(r), city_arg), name, Or(CsvHint(r), CsvCity(r)))
            /\ lookups' = Append(lookups, Entry("jd", <<name>>, <<>>, <<>>))
    /\ ti' = ti + 1
    /\ run_pc' = "csv_bn"
    /\ UNCHANGED <<mode, use_gmb, cities, keywords, max_pages, city_arg,
                   ci, ki, rows, ri, row, all_rows, failed_rows>>
    /\ UNCHANGED <<gmbVars, mVars, fVars>>

\* `scrape_justdial_by_name(...) or {...}`
CsvRow == IF bn_ret = <<>> THEN DefaultRow(ent.name) ELSE bn_ret[1]

\* The directory lookup was blocked: a failure entry, and `continue`.
CsvDirBlocked ==
    /\ run_pc = "csv_bn" /\ bn_pc = "done"
    /\ Truthy(Get(CsvRow, "_blocked"))
    /\ failed_rows' = Append(failed_rows,
                             FailedRow(ent.name, ent.address, Get(CsvRow, "_blocked")))
    /\ lookups' = Append(lookups, Entry("fail", <<ent.name>>, CsvRow, <<>>))
    /\ ent' = NoEnt
    /\ run_pc' = "csv"
    /\ BnRest /\ JdRest
    /\ UNCHANGED <<mode, use_gmb, cities, keywords, max_pages, city_arg,
                   ci, ki, rows, ri, ti, row, seen, all_rows>>
    /\ UNCHANGED <<gmbVars, mVars, fVars>>

\* No enrichment: `all_rows.append(_map_record(row))`.
CsvPlain ==
    /\ run_pc = "csv_bn" /\ bn_pc = "done"
    /\ ~Truthy(Get(CsvRow, "_blocked"))
    /\ ~use_gmb
    /\ all_rows' = Append(all_rows, _map_record(CsvRow))
    /\ lookups' = Append(lookups, Entry("out", <<ent.name>>, CsvRow, <<>>))
    /\ ent' = NoEnt
    /\ run_pc' = "csv"
    /\ BnRest /\ JdRest
    /\ UNCHANGED <<mode, use_gmb, cities, keywords, max_pages, city_arg,
                   ci, ki, rows, ri, ti, row, seen, failed_rows>>
    /\ UNCHANGED <<gmbVars, mVars, fVars>>

\* Enrichment: `gmb_data = scrape_gmb(query=query, headless=headless)`.
CsvProfile ==
    /\ run_pc = "csv_bn" /\ bn_pc = "done"
    /\ ~Truthy(Get(CsvRow, "_blocked"))
    /\ use_gmb
    /\ row' = <<CsvRow>>
    /\ LET base_address == Or(Get(CsvRow, "full_address"), ent.hint)
       IN  GmbStart(Query(Get(CsvRow, "center_name"), base_address))
    /\ lookups' = Append(lookups, Entry("gmb", <<ent.name>>, CsvRow, <<>>))
    /\ run_pc' = "csv_gmb"
    /\ BnRest /\ JdRest
    /\ UNCHANGED <<mode, use_gmb, cities, keywords, max_pages, city_arg,
                   ci, ki, rows, ri, ti, ent, seen, all_rows, failed_rows>>
    /\ UNCHANGED <<mVars, fVars>>

\* The blocked profile lookup without its `continue`: the failure entry, and
\* the row is merged and put out all the same.
CsvProfBlockedFallsThrough ==
    /\ run_pc = "csv_gmb" /\ gmb_pc = "done"
    /\ Truthy(Get(gmb_data, "_blocked"))
    /\ failed_rows' = Append(failed_rows,
                             FailedRow(ent.name, ent.address, Get(gmb_data, "_blocked")))
    /\ all_rows' = Append(all_rows, _map_record(_merge_gmb(row[1], gmb_data)))
    /\ lookups' = Append(lookups, Entry("fail", <<ent.name>>, row[1], gmb_data))
    /\ ent' = NoEnt
    /\ row' = <<>>
    /\ run_pc' = "csv"
    /\ GmbRest
    /\ UNCHANGED <<mode, use_gmb, cities, keywords, max_pages, city_arg,
                   ci, ki, rows, ri, ti, seen>>
    /\ UNCHANGED <<bnVars, jdVars, mVars, fVars>>

\* The profile lookup was blocked: a failure entry, and `continue`.
CsvProfBlocked ==
    /\ run_pc = "csv_gmb" /\ gmb_pc = "done"
    /\ Truthy(Get(gmb_data, "_blocked"))
    /\ failed_rows' = Append(failed_rows,
                             FailedRow(ent.name, ent.address, Get(gmb_data, "_blocked")))
    /\ lookups' = Append(lookups, Entry("fail", <<ent.name>>, row[1], gmb_data))
    /\ ent' = NoEnt
    /\ row' = <<>>
    /\ run_pc' = "csv"
    /\ GmbRest
    /\ UNCHANGED <<mode, use_gmb, cities, keywords, max_pages, city_arg,
                   ci, ki, rows, ri, ti, seen, all_rows>>
    /\ UNCHANGED <<bnVars, jdVars, mVars, fVars>>

\* What run_scrape_from_csv makes of the row once scrape_gmb has answered:
\* the merge, then `if not gmb_data.get("full_address"): row["full_address"] = None`.
CsvEnriched(r, gmb) ==
    LET merged == _merge_gmb(r, gmb)
    IN  IF ~Truthy(Get(gmb, "full_address"))
        THEN Put(merged, "full_address", None)
        ELSE merged

\* The profile lookup answered: merge, and append.
CsvMerge ==
    /\ run_pc = "csv_gmb" /\ gmb_pc = "done"
    /\ ~Truthy(Get(gmb_data, "_blocked"))
    /\ all_rows' = Append(all_rows, _map_record(CsvEnriched(row[1], gmb_data)))
    /\ lookups' = Append(lookups, Entry("out", <<ent.name>>, row[1], gmb_data))
    /\ ent' = NoEnt
    /\ row' = <<>>
    /\ run_pc' = "csv"
    /\ GmbRest
    /\ UNCHANGED <<mode, use_gmb, cities, keywords, max_pages, city_arg,
                   ci, ki, rows, ri, ti, seen, failed_rows>>
    /\ UNCHANGED <<bnVars, jdVars, mVars, fVars>>

\* The table is used up (it may end at any row): Failed_Records.csv if any, `return all_rows`, and
\* main writes the CSV.
CsvReturn ==
    /\ run_pc = "csv"
    /\ run_pc' = "done"
    /\ UNCHANGED <<mode, use_gmb, cities, keywords, max_pages, city_arg,
                   ci, ki, rows, ri, ti, row, ent, seen, all_rows, failed_rows, lookups>>
    /\ UNCHANGED <<bnVars, jdVars, gmbVars, mVars, fVars>>

----------------------------------------------------------------------------
(* The run: main in either mode.                                           *)

RunRest ==
    /\ ci = 1 /\ ki = 1 /\ rows = <<>> /\ ri = 0 /\ ti = 1 /\ row = <<>> /\ ent = NoEnt
    /\ seen = {} /\ all_rows = <<>> /\ failed_rows = <<>> /\ lookups = <<>>

InitBulk ==
    /\ mode = "bulk" /\ run_pc = "bulk"
    /\ cities = <<SMumbai, SPune>>
    /\ keywords = <<SKwDiag, SKwLab>>
    /\ max_pages = 1    \* --max-pages 1
    /\ city_arg = <<>>
    /\ RunRest

InitCsv ==
    /\ mode = "csv" /\ run_pc = "csv"
    /\ cities = <<>> /\ keywords = <<>> /\ max_pages = 0
    /\ city_arg = SMumbai
    /\ RunRest

Init ==
    /\ InitBulk \/ InitCsv
    /\ use_gmb \in BOOLEAN
    /\ selenium \in BOOLEAN
    /\ BnIdle /\ JdIdle /\ GmbIdle /\ MIdle /\ FIdle

Next ==
    \/ BulkQuery \/ BulkRows \/ BulkDuplicate \/ BulkPlain \/ BulkLookup
    \/ BulkMerge \/ BulkNext \/ BulkReturn
    \/ CsvSkip \/ CsvLookup \/ CsvDirBlocked \/ CsvPlain \/ CsvProfile
    \/ CsvProfBlocked \/ CsvMerge \/ CsvReturn
    \/ RunCrash
    \/ BnReturn
    \/ JdStep
    \/ GmbStep

Spec == Init /\ [][Next]_vars

----------------------------------------------------------------------------
(* scrape_justdial called on its own, for any number of pages.             *)

RunIdle ==
    /\ run_pc = "idle" /\ use_gmb = FALSE /\ selenium = FALSE
    /\ cities = <<>> /\ keywords = <<>> /\ max_pages = 0 /\ city_arg = <<>>
    /\ RunRest

InitJd ==
    /\ mode = "jd"
    /\ jd_pc = "loop" /\ jd_city = SMumbai /\ jd_keyword = SKwLab
    /\ jd_max \in 0..MaxPages
    /\ jd_page = 1 /\ jd_results = <<>> /\ jd_log = <<>>
    /\ RunIdle /\ BnIdle /\ GmbIdle /\ MIdle /\ FIdle

NextJd == JdNoHtml \/ JdBlocked \/ JdNoCards \/ JdCards \/ JdReturn

SpecJd == InitJd /\ [][NextJd]_vars

----------------------------------------------------------------------------
(* scrape_justdial_by_name called on its own.                              *)

SNoTokens == <<"!", "!", " ", "-", "-">>
SLabOnly  == <<"L", "A", "B">>

InitByName ==
    /\ mode = "byname"
    /\ bn_pc = "wait"
    /\ bn_name \in {SCityLab, SLabOnly, SNoTokens}
    /\ bn_address \in {None, <<>>, SMGRoad, SLinkRoad}
    /\ bn_ret = <<>>
    /\ jd_pc = "loop" /\ jd_city = SMumbai /\ jd_keyword = bn_name
    /\ jd_max = 1
    /\ jd_page = 1 /\ jd_results = <<>> /\ jd_log = <<>>
    /\ RunIdle /\ GmbIdle /\ MIdle /\ FIdle

NextByName == JdNoHtml \/ JdBlocked \/ JdNoCards \/ JdCards \/ JdReturn \/ BnReturn

SpecByName == InitByName /\ [][NextByName]_vars

----------------------------------------------------------------------------
(* _merge_gmb called on its own, on dicts drawn from small sets.           *)

MergeVals == {None, <<>>, SMGRoad, SMGRoadMum}
MergeDataKeys == {"center_name", "full_address"}
MergeGmbKeys == {"full_address", "working_hours", "_blocked"}

MergeCall ==
    /\ m_pc = "call"
    /\ m_out' = _merge_gmb(m_data, m_gmb)
    /\ m_pc' = "done"
    /\ UNCHANGED <<m_data, m_gmb>>
    /\ UNCHANGED <<runVars, bnVars, jdVars, gmbVars, fVars>>

InitMerge ==
    /\ mode = "merge"
    /\ m_pc = "call"
    /\ m_data \in [MergeDataKeys -> MergeVals]
    /\ m_gmb \in [MergeGmbKeys -> MergeVals]
    /\ m_out = <<>>
    /\ RunIdle /\ BnIdle /\ JdIdle /\ GmbIdle /\ FIdle

NextMerge == MergeCall

SpecMerge == InitMerge /\ [][NextMerge]_vars

----------------------------------------------------------------------------
(* The pure functions on their own: the card extractors on drawn cards,    *)
(* build_embed_link_from_place_url on drawn URLs, _match_score on drawn    *)
(* names and addresses.                                                    *)

\* Cards that differ from the empty card in what one extractor reads.  A
\* node's text is "" when the node is there and holds nothing.  The address
\* list names span.cont_fl_addr twice, so its first two entries are one
\* node; span.green-box span lies inside span.green-box; the href of the
\* link matched by a[href*='justdial.com'] is never empty.
ExtractCards ==
    {[CardC EXCEPT !.names = n] : n \in [1..4 -> {None, <<>>, SCityLab, SApolloLab}]}
        \cup {[CardC EXCEPT !.addrs = n] :
                n \in {a \in [1..4 -> {None, <<>>, SMGRoad}] : a[1] = a[2]}}
        \cup {[CardC EXCEPT !.ratings = n] :
                n \in {r \in [1..3 -> {None, <<>>, SRating45}] :
                          /\ r[2] # None => r[1] # None
                          /\ r[1] = <<>> => r[2] \in {None, <<>>}}}
        \cup {[CardC EXCEPT !.attrs = n] :
                n \in {a \in [1..3 -> {None, <<>>, SProfile}] : a[3] # <<>>}}

\* The four extractors of scrape_justdial on one card.
ExtractCall ==
    /\ mode = "extract" /\ f_pc = "call"
    /\ f_out' = [profile_url |-> _extract_profile_url(f_args),
                 name |-> _extract_name(f_args),
                 address |-> _extract_address(f_args),
                 rating |-> _extract_rating_reviews(f_args)]
    /\ f_pc' = "done"
    /\ UNCHANGED f_args
    /\ UNCHANGED <<runVars, bnVars, jdVars, gmbVars, mVars>>

\* The pieces place URLs are put together from.
UrlPieces ==
    {SPlaceX, <<"m", "/", "X">>, <<"?">>, <<"&">>, OutputEmbed,
     <<"o", "u", "t", "p", "u", "t", "=">>, <<"e", "m", "b", "e", "d">>}

\* The URLs of at most n pieces.
RECURSIVE Urls(_)
Urls(n) ==
    IF n = 0 THEN {<<>>}
    ELSE Urls(n - 1) \cup {u \o p : u \in Urls(n - 1), p \in UrlPieces}

EmbedCall ==
    /\ mode = "embed" /\ f_pc = "call"
    /\ f_out' = build_embed_link_from_place_url(f_args)
    /\ f_pc' = "done"
    /\ UNCHANGED f_args
    /\ UNCHANGED <<runVars, bnVars, jdVars, gmbVars, mVars>>

SLabCity == <<"L", "A", "B", ",", " ", "c", "i", "t", "y", "!">>
SRoadMG  == <<"r", "o", "a", "d", "-", "M", "G", ".">>

\* candidate, target, candidate_address, target_address
ScoreArgs ==
    {None, <<>>, SCityLab, SLabCity, SApolloLab, SNoTokens}
        \X {None, <<>>, SCityLab, SLabCity, SApolloLab, SNoTokens}
        \X {None, <<>>, SMGRoad, SRoadMG, SLinkRoad}
        \X {None, <<>>, SMGRoad, SRoadMG, SLinkRoad}

ScoreCall ==
    /\ mode = "score" /\ f_pc = "call"
    /\ f_out' = _match_score(f_args[1], f_args[2], f_args[3], f_args[4])
    /\ f_pc' = "done"
    /\ UNCHANGED f_args
    /\ UNCHANGED <<runVars, bnVars, jdVars, gmbVars, mVars>>

InitFn ==
    /\ f_pc = "call" /\ f_out = <<>>
    /\ \/ mode = "extract" /\ f_args \in ExtractCards
       \/ mode = "embed" /\ f_args \in Urls(MaxUrlParts) \cup {None}
       \/ mode = "score" /\ f_args \in ScoreArgs
    /\ RunIdle /\ BnIdle /\ JdIdle /\ GmbIdle /\ MIdle

NextFn == ExtractCall \/ EmbedCall \/ ScoreCall

SpecFn == InitFn /\ [][NextFn]_vars

----------------------------------------------------------------------------
(* The merge rule.                                                         *)

\* The keys of the blocked sentinel.
SentinelKeys == {"_blocked"}

\* C1: after _merge_gmb(data, gmb) every field that is no sentinel holds the
\* profile's value if that value is non-empty and the listing's value
\* otherwise; a sentinel key is never copied; a populated field is never
\* replaced by an empty value; an all-empty profile leaves the listing as it
\* was.
C1_MergeRule ==
    m_pc = "done" =>
        /\ \A key \in (DOMAIN m_data \cup DOMAIN m_gmb) \ SentinelKeys :
            Get(m_out, key) =
                IF Truthy(Get(m_gmb, key)) THEN m_gmb[key] ELSE Get(m_data, key)
        /\ \A key \in SentinelKeys :
            /\ key \in DOMAIN m_out <=> key \in DOMAIN m_data
            /\ key \in DOMAIN m_data => m_out[key] = m_data[key]
        /\ \A key \in DOMAIN m_data :
            Truthy(m_data[key]) /\ ~Truthy(Get(m_gmb, key)) => m_out[key] = m_data[key]
        /\ (\A key \in DOMAIN m_gmb \ SentinelKeys : ~Truthy(m_gmb[key])) => m_out = m_data

\* A merge in which an empty profile address met a populated listing address,
\* a profile value was copied into a field the listing did not have, and the
\* profile carried a block reason.
C1_Witness ==
    /\ m_pc = "done"
    /\ m_data["full_address"] = SMGRoad /\ m_gmb["full_address"] = <<>>
    /\ m_out["full_address"] = SMGRoad
    /\ m_gmb["working_hours"] = SMGRoadMum /\ m_out["working_hours"] = SMGRoadMum
    /\ Truthy(m_gmb["_blocked"]) /\ "_blocked" \notin DOMAIN m_out

----------------------------------------------------------------------------
(* The run.                                                                *)

\* The entries of lookups of one kind, in order.
Entries(kind) == SelectSeq(lookups, LAMBDA e : e.kind = kind)

\* The merge rule on one key: the profile's value if it is non-empty, else
\* the listing's.
MergedField(rec, gmb, key) ==
    IF Truthy(Get(gmb, key)) THEN Get(gmb, key) ELSE Get(rec, key)

\* An output row holds, column by column, the merge-rule result of the
\* directory record and the profile record it was made from.
IsMergeResult(out_row, rec, gmb) ==
    \A i \in 1..Len(COLUMNS) :
        out_row[COLUMNS[i][1]] = MergedField(rec, gmb, COLUMNS[i][2])

\* C2: in targeted mode with enrichment every output row holds, field by
\* field, the merge-rule result of its directory record and its profile
\* record: nothing mutates the row after the merge, so a non-empty directory
\* address is never replaced by an empty one.
C2_TargetedRowIsMergeResult ==
    mode = "csv" /\ use_gmb =>
        /\ Len(Entries("out")) = Len(all_rows)
        /\ \A i \in 1..Len(all_rows) :
            IsMergeResult(all_rows[i], Entries("out")[i].rec, Entries("out")[i].gmb)

\* C3: in targeted mode a blocked directory lookup and a blocked profile
\* lookup each append exactly one entry {Center Name, Address, Reason} with
\* the block reason to the failure list and no output row; after a blocked
\* directory lookup no profile lookup is made; an entity with a failure entry
\* has one, and no output row.
C3_FailureEntries ==
    LET fails == Entries("fail")
    IN  /\ Len(fails) = Len(failed_rows)
        /\ \A i \in 1..Len(fails) :
            /\ failed_rows[i]["Center Name"] = fails[i].key[1]
            /\ failed_rows[i]["Reason"] \in {JdBlockedReason, GmbBlockedReason}
            /\ \A j \in 1..Len(fails) : fails[j].key = fails[i].key => j = i
            /\ \A j \in 1..Len(lookups) :
                lookups[j].key = fails[i].key => lookups[j].kind # "out"
            /\ failed_rows[i]["Reason"] = JdBlockedReason =>
                \A j \in 1..Len(lookups) :
                    lookups[j].key = fails[i].key => lookups[j].kind # "gmb"
C3_DirBlockedStep ==
    run_pc = "csv_bn" /\ bn_pc = "done" /\ bn_ret # <<>>
        /\ Truthy(Get(bn_ret[1], "_blocked")) =>
            /\ failed_rows' = Append(failed_rows,
                                     FailedRow(ent.name, ent.address, Get(bn_ret[1], "_blocked")))
            /\ all_rows' = all_rows
            /\ gmb_pc' = "idle" /\ sessions' = sessions
            /\ run_pc' = "csv"
C3_ProfBlockedStep ==
    run_pc = "csv_gmb" /\ gmb_pc = "done" /\ Truthy(Get(gmb_data, "_blocked")) =>
        /\ failed_rows' = Append(failed_rows,
                                 FailedRow(ent.name, ent.address, Get(gmb_data, "_blocked")))
        /\ all_rows' = all_rows
        /\ run_pc' = "csv"
C3_BlockedToFailureList ==
    /\ [](mode = "csv" => C3_FailureEntries)
    /\ [][mode = "csv" => C3_DirBlockedStep /\ C3_ProfBlockedStep]_vars

\* A targeted run that has put one entity on the failure list for a blocked
\* directory lookup and another for a blocked profile lookup.
C3_Witness ==
    /\ mode = "csv" /\ run_pc = "csv"
    /\ Len(failed_rows) = 2
    /\ failed_rows[1]["Reason"] = GmbBlockedReason
    /\ failed_rows[1]["Address"] = SMGRoad
    /\ failed_rows[2]["Reason"] = JdBlockedReason
    /\ all_rows = <<>>

\* C4: in bulk mode no output row is appended for a record that carries
\* _blocked: neither for the sentinel scrape_justdial answers a blocked
\* query with, nor for a listing whose profile record has _blocked set.
C4_BulkBlockedStep ==
    /\ run_pc = "bulk_row" /\ ri <= Len(rows) /\ Truthy(Get(rows[ri], "_blocked"))
        => all_rows' = all_rows
    /\ run_pc = "bulk_gmb" /\ gmb_pc = "done" /\ Truthy(Get(gmb_data, "_blocked"))
        => all_rows' = all_rows
C4_BulkBlockedNeverOutput == [][mode = "bulk" => C4_BulkBlockedStep]_vars

\* The keys of the rows the run has taken up so far.
TakenKeys == {lookups[i].key : i \in {j \in 1..Len(lookups) : lookups[j].kind \in {"out", "gmb"}}}

\* The queries of the cross product, cities outer, keywords inner.
QueryOrder ==
    [n \in 1..(Len(cities) * Len(keywords)) |->
        <<cities[((n - 1) \div Len(keywords)) + 1], keywords[((n - 1) % Len(keywords)) + 1]>>]

\* C5: in bulk mode the output holds at most one row per (center_name,
\* full_address) the extractor returned, made from the first record with
\* that pair in iteration order (cities outer, keywords inner, cards in page
\* order); a later record with the pair adds no row and starts no profile
\* lookup.
C5_OneRowPerKey ==
    LET outs == Entries("out")
        jds == Entries("jd")
    IN  /\ Len(outs) = Len(all_rows)
        /\ \A i \in 1..Len(outs) :
            /\ outs[i].key = <<Get(outs[i].rec, "center_name"), Get(outs[i].rec, "full_address")>>
            /\ \A j \in 1..Len(outs) : outs[j].key = outs[i].key => j = i
            /\ IsMergeResult(all_rows[i], outs[i].rec, outs[i].gmb)
        /\ \A i \in 1..Len(lookups) : \A j \in 1..Len(lookups) :
            lookups[i].kind = "gmb" /\ lookups[j].kind = "gmb"
                /\ lookups[i].key = lookups[j].key => i = j
        /\ \A i \in 1..Len(lookups) :
            lookups[i].kind = "out" /\ lookups[i].gmb # <<>> =>
                /\ i > 1 /\ lookups[i - 1].kind = "gmb"
                /\ lookups[i - 1].key = lookups[i].key
                /\ lookups[i - 1].rec = lookups[i].rec
        /\ Len(jds) <= Len(QueryOrder)
        /\ \A n \in 1..Len(jds) : jds[n].key = QueryOrder[n]
C5_RowStep ==
    run_pc = "bulk_row" /\ ri <= Len(rows) =>
        LET key == <<Get(rows[ri], "center_name"), Get(rows[ri], "full_address")>>
        IN  IF key \in TakenKeys
            THEN /\ all_rows' = all_rows
                 /\ lookups' = lookups
                 /\ gmb_pc' = "idle" /\ sessions' = sessions
                 /\ ri' = ri + 1
            ELSE /\ Len(lookups') = Len(lookups) + 1
                 /\ lookups'[Len(lookups')].key = key
                 /\ lookups'[Len(lookups')].rec = rows[ri]
                 /\ lookups'[Len(lookups')].kind \in {"out", "gmb"}
C5_BulkDedup ==
    /\ [](mode = "bulk" => C5_OneRowPerKey)
    /\ [][mode = "bulk" => C5_RowStep]_vars

\* A bulk run that is over: two rows are out, the first made from the first
\* City Lab record of the first query, and the City Lab record of a later
\* query, with another rating and type, made none.
C5_Witness ==
    /\ mode = "bulk" /\ run_pc = "done"
    /\ Len(all_rows) = 2
    /\ all_rows[1]["Center Name"] = SCityLab
    /\ all_rows[1]["Center Type"] = <<"Diagnostic Center">>
    /\ all_rows[1]["Reviews / Ratings"] = Strip(SRating45)
    /\ all_rows[2]["Center Name"] = None
    /\ all_rows[2]["Center Type"] = <<"Lab">>
    /\ Len(Entries("gmb")) = 1
    /\ Len(Entries("jd")) = 4

----------------------------------------------------------------------------
(* scrape_justdial and scrape_justdial_by_name.                            *)

\* The fetch of a page came back with a document the block detection fires on.
IsBlockedPage(html) == ~NoHtml(html) /\ looks_like_blocked(html.text)

\* The fetch came back with a document that is not blocked and has no cards.
IsNoCardsPage(html) ==
    ~NoHtml(html) /\ ~looks_like_blocked(html.text) /\ _extract_listing_cards(html.soup) = <<>>

\* The records of the first n pages fetched, in page order.
RECURSIVE Collected(_)
Collected(n) ==
    IF n = 0 THEN <<>>
    ELSE Collected(n - 1) \o
         (IF NoHtml(jd_log[n].html) \/ looks_like_blocked(jd_log[n].html.text)
          THEN <<>>
          ELSE PageResults(_extract_listing_cards(jd_log[n].html.soup), jd_keyword,
                           PageUrl(jd_city, jd_keyword, n)))

\* C6: when the block detection fires on a fetched page k of scrape_justdial
\* the call returns the one-element list holding the blocked sentinel, the
\* records of the pages before k are dropped, and no page after k is fetched.
C6_BlockedAbortsCall ==
    \A k \in 1..Len(jd_log) :
        IsBlockedPage(jd_log[k].html) =>
            /\ jd_log[k].page = k /\ k <= jd_max
            /\ k = Len(jd_log)
            /\ jd_pc = "done"
            /\ jd_results = <<Sentinel(JdBlockedReason)>>

\* Page 1 of three had a card, page 2 was a block page: the call is over with
\* the sentinel alone, page 3 unfetched.
C6_Witness ==
    /\ mode = "jd" /\ jd_pc = "done" /\ jd_max = 3
    /\ Len(jd_log) = 2
    /\ Collected(1) # <<>>
    /\ IsBlockedPage(jd_log[2].html)
    /\ jd_results = <<Sentinel(JdBlockedReason)>>

\* C7: scrape_justdial fetches pages 1..max_pages in order, once each; a page
\* without cards stops the paging and the call returns the records of the
\* pages before it; when no page has a card the result is the empty list; a
\* page whose fetch gave no document adds nothing and the paging goes on.
C7_Paging ==
    /\ \A k \in 1..Len(jd_log) : jd_log[k].page = k
    /\ Len(jd_log) <= jd_max
    /\ jd_pc = "loop" =>
        /\ jd_page = Len(jd_log) + 1
        /\ jd_results = Collected(Len(jd_log))
        /\ \A k \in 1..Len(jd_log) :
            ~IsNoCardsPage(jd_log[k].html) /\ ~IsBlockedPage(jd_log[k].html)
    /\ \A k \in 1..Len(jd_log) :
        IsNoCardsPage(jd_log[k].html) =>
            /\ k = Len(jd_log)
            /\ jd_pc = "done"
            /\ jd_results = Collected(k - 1)
    /\ jd_pc = "done" /\ (\A k \in 1..Len(jd_log) : ~IsBlockedPage(jd_log[k].html)) =>
        /\ jd_results = Collected(Len(jd_log))
        /\ Len(jd_log) = jd_max
            \/ (jd_log # <<>> /\ IsNoCardsPage(jd_log[Len(jd_log)].html))
        /\ (\A k \in 1..Len(jd_log) :
                NoHtml(jd_log[k].html) \/ _extract_listing_cards(jd_log[k].html.soup) = <<>>)
            => jd_results = <<>>

\* Of three pages the first had a card and the second none: the call is
\* over with the record of page 1, page 3 unfetched.
C7_Witness ==
    /\ mode = "jd" /\ jd_pc = "done" /\ jd_max = 3
    /\ Len(jd_log) = 2
    /\ IsNoCardsPage(jd_log[2].html)
    /\ Len(jd_results) = 1 /\ jd_results = Collected(1)
    /\ jd_results[1]["center_name"] = SCityLab
    /\ jd_results[1]["source_url"] = PageUrl(jd_city, jd_keyword, 1)

\* The match score of candidate j against the name and address asked for.
Score(j) ==
    _match_score(Get(jd_results[j], "center_name"), bn_name,
                 Get(jd_results[j], "full_address"), bn_address)

\* C8: for a candidate list that is neither empty nor blocked
\* scrape_justdial_by_name returns the candidate with the greatest match
\* score, the earliest of those with that score, so the first candidate when
\* every score is zero; it returns None only for the empty list.
C8_BestMatch ==
    bn_pc = "done" =>
        /\ bn_ret = <<>> <=> jd_results = <<>>
        /\ jd_results # <<>> /\ ~Truthy(Get(jd_results[1], "_blocked")) =>
            /\ \E j \in 1..Len(jd_results) :
                /\ bn_ret = <<jd_results[j]>>
                /\ \A i \in 1..Len(jd_results) :
                    /\ Score(i) <= Score(j)
                    /\ i < j => Score(i) < Score(j)
            /\ (\A i \in 1..Len(jd_results) : Score(i) = 0) => bn_ret = <<jd_results[1]>>

\* Three candidates: the second and third, different records, tie for the
\* greatest score, above the first; the second is returned.
C8_Witness ==
    /\ mode = "byname" /\ bn_pc = "done"
    /\ Len(jd_results) = 3
    /\ Score(1) < Score(2) /\ Score(2) = Score(3)
    /\ jd_results[2] # jd_results[3]
    /\ bn_ret = <<jd_results[2]>>

\* C9: a browser session scrape_gmb acquired is quit exactly once before
\* the call returns, on every way out (the end of the try, the early return
\* on a block page, an exception in the try), and at most one session is
\* open at any time of a run.
C9_SessionsTornDown ==
    /\ \A i \in 1..Len(sessions) : sessions[i] <= 1
    /\ \A i \in 1..Len(sessions) :
        sessions[i] = 0 => i = gmb_driver /\ gmb_pc \in {"try", "loaded", "finally"}
    /\ gmb_pc \in {"try", "loaded", "finally"} => gmb_driver \in 1..Len(sessions)
    /\ gmb_pc \in {"try", "loaded"} => sessions[gmb_driver] = 0

\* scrape_gmb is about to return from its second session of the run, which
\* met a block page; both sessions are quit.
C9_Witness ==
    /\ gmb_pc = "done"
    /\ Len(sessions) = 2 /\ gmb_driver = 2
    /\ sessions = <<1, 1>>
    /\ gmb_data["_blocked"] = GmbBlockedReason

\* C10: when the browser cannot be set up for a profile lookup (no selenium,
\* or the driver constructor fails) scrape_gmb returns the all-null record
\* and raises nothing, and no error of a profile lookup ends the run.
C10_LookupNeverRaises ==
    /\ gmb_pc # "raised"
    /\ run_pc # "crashed"
    /\ gmb_pc = "done" /\ gmb_driver = 0 => gmb_data = EmptyProfile

----------------------------------------------------------------------------
(* The pure functions.                                                     *)

\* The least number of a non-empty set of numbers.
Least(S) == CHOOSE i \in S : \A j \in S : i <= j

\* The first non-empty normalized text among the nodes the selector
\* candidates find, None when no candidate yields one.
FirstNonEmptyText(nodes) ==
    LET good == {i \in 1..Len(nodes) :
                    nodes[i] # None /\ Truthy(normalize_text(nodes[i]))}
    IN  IF good = {} THEN None ELSE normalize_text(nodes[Least(good)])

\* The first non-empty attribute value among the candidates.
FirstNonEmptyAttr(values) ==
    LET good == {i \in 1..Len(values) : Truthy(values[i])}
    IN  IF good = {} THEN None ELSE values[Least(good)]

\* C11: each card extractor returns the first non-empty normalized value
\* its ordered selector candidates yield: an earlier candidate whose node has
\* no text does not keep a later candidate's text from being returned, and
\* None is returned only when no candidate yields a non-empty value.
C11_FirstNonEmptyCandidate ==
    mode = "extract" /\ f_pc = "done" =>
        /\ f_out.name = FirstNonEmptyText(f_args.names)
        /\ f_out.address = FirstNonEmptyText(f_args.addrs)
        /\ f_out.rating = FirstNonEmptyText(f_args.ratings)
        /\ f_out.profile_url = FirstNonEmptyAttr(f_args.attrs)

\* How often sub occurs in s.
CountOf(s, sub) ==
    Cardinality({i \in 1..(Len(s) - Len(sub) + 1) : SubSeq(s, i, i + Len(sub) - 1) = sub})

\* C12: for a non-empty URL without output=embed,
\* build_embed_link_from_place_url returns the URL followed by &output=embed
\* when it holds a ?, by ?output=embed otherwise, and the result holds
\* output=embed exactly once; a URL that holds output=embed is returned
\* unchanged; applying the function to its own result changes nothing.
C12_EmbedIdempotent ==
    mode = "embed" /\ f_pc = "done" /\ Truthy(f_args) =>
        /\ CountOf(f_args, OutputEmbed) = 0 =>
            /\ f_out = f_args
                        \o (IF CountOf(f_args, <<"?">>) > 0 THEN <<"&">> ELSE <<"?">>)
                        \o <<"o", "u", "t", "p", "u", "t", "=", "e", "m", "b", "e", "d">>
            /\ CountOf(f_out, OutputEmbed) = 1
        /\ CountOf(f_args, OutputEmbed) > 0 => f_out = f_args
        /\ build_embed_link_from_place_url(f_out) = f_out

\* A URL with a query string that ends in the first half of the marker: the
\* marker is appended after an &, and the result holds it once.
C12_Witness ==
    /\ mode = "embed" /\ f_pc = "done"
    /\ f_args = SPlaceX \o <<"&">> \o <<"o", "u", "t", "p", "u", "t", "=">>
    /\ f_out = f_args \o <<"&">> \o OutputEmbed
    /\ CountOf(f_out, OutputEmbed) = 1
    /\ build_embed_link_from_place_url(f_out) = f_out

\* The lowercased alphanumeric tokens of a text: its maximal runs of letters
\* and digits, lowercased; none for None and for "".
TokensOf(text) ==
    IF ~Truthy(text) THEN {}
    ELSE {Lower(SubSeq(text, i, j)) : <<i, j>> \in
            {p \in (1..Len(text)) \X (1..Len(text)) :
                /\ p[1] <= p[2]
                /\ \A k \in p[1]..p[2] : IsAlnum(LowerChar(text[k]))
                /\ p[1] = 1 \/ ~IsAlnum(LowerChar(text[p[1] - 1]))
                /\ p[2] = Len(text) \/ ~IsAlnum(LowerChar(text[p[2] + 1]))}}

\* A text with the case of every letter turned.
Recased(text) ==
    IF ~Truthy(text) THEN text
    ELSE [i \in 1..Len(text) |->
            IF \E k \in 1..26 : UpperChars[k] = text[i]
            THEN LowerChar(text[i])
            ELSE IF \E k \in 1..26 : LowerChars[k] = text[i]
                 THEN UpperChars[CHOOSE k \in 1..26 : LowerChars[k] = text[i]]
                 ELSE text[i]]

\* A text with every character between its tokens replaced by a comma, and
\* an exclamation mark put in front and behind.
Repunctuated(text) ==
    IF ~Truthy(text) THEN text
    ELSE <<"!">> \o [i \in 1..Len(text) |->
                        IF IsAlnum(LowerChar(text[i])) THEN text[i] ELSE ","] \o <<"!">>

\* C13: _match_score is the number of lowercased alphanumeric tokens the two
\* names share, plus, only when both addresses are present, the number the
\* two addresses share; it is 0 when either name has no token, whatever the
\* addresses; and it is the same with candidate and target (and their
\* addresses) swapped, and with a name or address replaced by one that has
\* the same tokens in another order, case or punctuation.
C13_MatchScore ==
    mode = "score" /\ f_pc = "done" =>
        LET candidate == f_args[1]
            target == f_args[2]
            candidate_address == f_args[3]
            target_address == f_args[4]
        IN  /\ f_out =
                IF TokensOf(candidate) = {} \/ TokensOf(target) = {} THEN 0
                ELSE Cardinality(TokensOf(candidate) \cap TokensOf(target))
                     + (IF Truthy(candidate_address) /\ Truthy(target_address)
                        THEN Cardinality(TokensOf(candidate_address) \cap TokensOf(target_address))
                        ELSE 0)
            /\ f_out = _match_score(target, candidate, target_address, candidate_address)
            /\ f_out = _match_score(Recased(candidate), target,
                                    Recased(candidate_address), target_address)
            /\ f_out = _match_score(candidate, Repunctuated(target),
                                    candidate_address, Repunctuated(target_address))
            /\ \A name \in {a[1] : a \in ScoreArgs} :
                TokensOf(name) = TokensOf(candidate) /\ Truthy(name) =>
                    f_out = _match_score(name, target, candidate_address, target_address)
            /\ \A address \in {a[4] : a \in ScoreArgs} :
                TokensOf(address) = TokensOf(target_address) /\ Truthy(address) =>
                    f_out = _match_score(candidate, target, candidate_address, address)

\* "City Lab" at "MG Road" scored against "LAB, city!" at "road-MG.": the
\* same tokens in another order, case and punctuation, two shared by the
\* names and two by the addresses.
C13_Witness ==
    /\ mode = "score" /\ f_pc = "done"
    /\ f_args = <<SCityLab, SLabCity, SMGRoad, SRoadMG>>
    /\ f_out = 4
    /\ _match_score(SCityLab, SCityLab, SMGRoad, SMGRoad) = 4
    /\ _match_score(SNoTokens, SLabCity, SMGRoad, SRoadMG) = 0

----------------------------------------------------------------------------
(* The targeted run, entity by entity.                                     *)

\* The non-empty names the rows of an input table can hold.
TableNames == {Strip(r.name) : r \in {x \in InputRows : x.name # NaN}} \ {<<>>}

\* How many entries of a kind the run's history holds for an entity.
EntriesFor(kind, name) ==
    Cardinality({i \in 1..Len(lookups) : lookups[i].kind = kind /\ lookups[i].key = <<name>>})

\* C14: in targeted mode the entities taken up are the distinct non-empty
\* names of the table; for each there is at most one directory lookup and at
\* most one profile lookup, and when the run is over each has exactly one
\* output row or exactly one failure entry, so the rows and the failure
\* entries together are as many as the distinct non-empty names.
C14_EveryNameAccountedOnce ==
    mode = "csv" =>
        /\ seen \subseteq TableNames
        /\ \A name \in seen :
            /\ EntriesFor("jd", name) <= 1
            /\ EntriesFor("gmb", name) <= 1
            /\ EntriesFor("out", name) + EntriesFor("fail", name) <= 1
        /\ run_pc = "done" =>
            /\ \A name \in seen :
                EntriesFor("out", name) + EntriesFor("fail", name) = 1
            /\ Len(all_rows) + Len(failed_rows) = Cardinality(seen)
            /\ Len(all_rows) + Len(failed_rows) <= Cardinality(TableNames)

=============================================================================
